---- MODULE Spec2Model ----
(***************************************************************************)
(* HuntingTourneyBot: the two-ban stage draft of src/HuntingTourneyBot.py. *)
(*                                                                         *)
(* Two threads of control touch the DraftManager object:                   *)
(*   - the asyncio event loop, which runs the !start / !end handlers and   *)
(*     the process_ban1 / process_ban2 coroutines; coroutines interleave   *)
(*     only at their await points, so every action below that belongs to   *)
(*     the loop is the code between two awaits;                            *)
(*   - the console input thread (console_input_loop), which reads the      *)
(*     DraftManager fields, reads a line from stdin and schedules a ban    *)
(*     coroutine on the loop, waiting for its future with a timeout.       *)
(*                                                                         *)
(* Text is modelled as sequences of one-character strings so that lower()  *)
(* and strip() are computed, not assumed.  Optional[str] fields hold the   *)
(* string None when unset.                                                 *)
(***************************************************************************)
EXTENDS Integers, Sequences, FiniteSets, TLC

None == "None"

(* ---------------------------- bounds ----------------------------------- *)
\* ban coroutines that can be alive on the event loop at once
MaxInFlight == 2
\* !start handlers that can be suspended in their countdown at once
MaxPendingStarts == 1
\* !start commands issued in a run
MaxStarts == 2
\* future.result() timeouts taken by the console thread in a run
MaxTimeouts == 1
\* bans handed to the event loop by the console thread in a run
MaxSubmissions == 3

(* ------------------------------- text --------------------------------- *)
\* The strings the model computes on, spelled out character by character, so
\* that lower() and strip() are carried out on the characters: the catalog
\* names and aliases, the console lines, and what strip() and lower() make
\* of them.
Spell ==
  "Wild Canyon" :> <<"W", "i", "l", "d", " ", "C", "a", "n", "y", "o", "n">> @@
  "WC" :> <<"W", "C">> @@
  "wild" :> <<"w", "i", "l", "d">> @@
  "canyon" :> <<"c", "a", "n", "y", "o", "n">> @@
  "Pumpkin Hill" :> <<"P", "u", "m", "p", "k", "i", "n", " ", "H", "i", "l", "l">> @@
  "PH" :> <<"P", "H">> @@
  "pumpkin" :> <<"p", "u", "m", "p", "k", "i", "n">> @@
  "hill" :> <<"h", "i", "l", "l">> @@
  "Death Chamber" :> <<"D", "e", "a", "t", "h", " ", "C", "h", "a", "m", "b", "e", "r">> @@
  "DC" :> <<"D", "C">> @@
  "death" :> <<"d", "e", "a", "t", "h">> @@
  "chamber" :> <<"c", "h", "a", "m", "b", "e", "r">> @@
  "Aquatic Mine" :> <<"A", "q", "u", "a", "t", "i", "c", " ", "M", "i", "n", "e">> @@
  "AM" :> <<"A", "M">> @@
  "aquatic" :> <<"a", "q", "u", "a", "t", "i", "c">> @@
  "mine" :> <<"m", "i", "n", "e">> @@
  "Meteor Herd" :> <<"M", "e", "t", "e", "o", "r", " ", "H", "e", "r", "d">> @@
  "MH" :> <<"M", "H">> @@
  "meteor" :> <<"m", "e", "t", "e", "o", "r">> @@
  "herd" :> <<"h", "e", "r", "d">> @@
  "Dry Lagoon" :> <<"D", "r", "y", " ", "L", "a", "g", "o", "o", "n">> @@
  "DL" :> <<"D", "L">> @@
  "dry" :> <<"d", "r", "y">> @@
  "lagoon" :> <<"l", "a", "g", "o", "o", "n">> @@
  "Egg Quarters" :> <<"E", "g", "g", " ", "Q", "u", "a", "r", "t", "e", "r", "s">> @@
  "EQ" :> <<"E", "Q">> @@
  "egg" :> <<"e", "g", "g">> @@
  "quarters" :> <<"q", "u", "a", "r", "t", "e", "r", "s">> @@
  "Security Hall" :> <<"S", "e", "c", "u", "r", "i", "t", "y", " ", "H", "a", "l", "l">> @@
  "SH" :> <<"S", "H">> @@
  "security" :> <<"s", "e", "c", "u", "r", "i", "t", "y">> @@
  "hall" :> <<"h", "a", "l", "l">> @@
  "Mad Space" :> <<"M", "a", "d", " ", "S", "p", "a", "c", "e">> @@
  "MS" :> <<"M", "S">> @@
  "mad" :> <<"m", "a", "d">> @@
  "space" :> <<"s", "p", "a", "c", "e">> @@
  "wc" :> <<"w", "c">> @@
  " MS " :> <<" ", "M", "S", " ">> @@
  "xyz" :> <<"x", "y", "z">> @@
  "wild canyon" :> <<"w", "i", "l", "d", " ", "c", "a", "n", "y", "o", "n">> @@
  "pumpkin hill" :> <<"p", "u", "m", "p", "k", "i", "n", " ", "h", "i", "l", "l">> @@
  "ph" :> <<"p", "h">> @@
  "death chamber" :> <<"d", "e", "a", "t", "h", " ", "c", "h", "a", "m", "b", "e", "r">> @@
  "dc" :> <<"d", "c">> @@
  "aquatic mine" :> <<"a", "q", "u", "a", "t", "i", "c", " ", "m", "i", "n", "e">> @@
  "am" :> <<"a", "m">> @@
  "meteor herd" :> <<"m", "e", "t", "e", "o", "r", " ", "h", "e", "r", "d">> @@
  "mh" :> <<"m", "h">> @@
  "dry lagoon" :> <<"d", "r", "y", " ", "l", "a", "g", "o", "o", "n">> @@
  "dl" :> <<"d", "l">> @@
  "egg quarters" :> <<"e", "g", "g", " ", "q", "u", "a", "r", "t", "e", "r", "s">> @@
  "eq" :> <<"e", "q">> @@
  "security hall" :> <<"s", "e", "c", "u", "r", "i", "t", "y", " ", "h", "a", "l", "l">> @@
  "sh" :> <<"s", "h">> @@
  "mad space" :> <<"m", "a", "d", " ", "s", "p", "a", "c", "e">> @@
  "ms" :> <<"m", "s">> @@
  " ms " :> <<" ", "m", "s", " ">> @@
  "WILD CANYON" :> <<"W", "I", "L", "D", " ", "C", "A", "N", "Y", "O", "N">> @@
  "Wc" :> <<"W", "c">> @@
  "WILD" :> <<"W", "I", "L", "D">> @@
  "Wild" :> <<"W", "i", "l", "d">> @@
  "CANYON" :> <<"C", "A", "N", "Y", "O", "N">> @@
  "Canyon" :> <<"C", "a", "n", "y", "o", "n">> @@
  "PUMPKIN HILL" :> <<"P", "U", "M", "P", "K", "I", "N", " ", "H", "I", "L", "L">> @@
  "Ph" :> <<"P", "h">> @@
  "PUMPKIN" :> <<"P", "U", "M", "P", "K", "I", "N">> @@
  "Pumpkin" :> <<"P", "u", "m", "p", "k", "i", "n">> @@
  "HILL" :> <<"H", "I", "L", "L">> @@
  "Hill" :> <<"H", "i", "l", "l">> @@
  "DEATH CHAMBER" :> <<"D", "E", "A", "T", "H", " ", "C", "H", "A", "M", "B", "E", "R">> @@
  "Dc" :> <<"D", "c">> @@
  "DEATH" :> <<"D", "E", "A", "T", "H">> @@
  "Death" :> <<"D", "e", "a", "t", "h">> @@
  "CHAMBER" :> <<"C", "H", "A", "M", "B", "E", "R">> @@
  "Chamber" :> <<"C", "h", "a", "m", "b", "e", "r">> @@
  "AQUATIC MINE" :> <<"A", "Q", "U", "A", "T", "I", "C", " ", "M", "I", "N", "E">> @@
  "Am" :> <<"A", "m">> @@
  "AQUATIC" :> <<"A", "Q", "U", "A", "T", "I", "C">> @@
  "Aquatic" :> <<"A", "q", "u", "a", "t", "i", "c">> @@
  "MINE" :> <<"M", "I", "N", "E">> @@
  "Mine" :> <<"M", "i", "n", "e">> @@
  "METEOR HERD" :> <<"M", "E", "T", "E", "O", "R", " ", "H", "E", "R", "D">> @@
  "Mh" :> <<"M", "h">> @@
  "METEOR" :> <<"M", "E", "T", "E", "O", "R">> @@
  "Meteor" :> <<"M", "e", "t", "e", "o", "r">> @@
  "HERD" :> <<"H", "E", "R", "D">> @@
  "Herd" :> <<"H", "e", "r", "d">> @@
  "DRY LAGOON" :> <<"D", "R", "Y", " ", "L", "A", "G", "O", "O", "N">> @@
  "Dl" :> <<"D", "l">> @@
  "DRY" :> <<"D", "R", "Y">> @@
  "Dry" :> <<"D", "r", "y">> @@
  "LAGOON" :> <<"L", "A", "G", "O", "O", "N">> @@
  "Lagoon" :> <<"L", "a", "g", "o", "o", "n">> @@
  "EGG QUARTERS" :> <<"E", "G", "G", " ", "Q", "U", "A", "R", "T", "E", "R", "S">> @@
  "Eq" :> <<"E", "q">> @@
  "EGG" :> <<"E", "G", "G">> @@
  "Egg" :> <<"E", "g", "g">> @@
  "QUARTERS" :> <<"Q", "U", "A", "R", "T", "E", "R", "S">> @@
  "Quarters" :> <<"Q", "u", "a", "r", "t", "e", "r", "s">> @@
  "SECURITY HALL" :> <<"S", "E", "C", "U", "R", "I", "T", "Y", " ", "H", "A", "L", "L">> @@
  "Sh" :> <<"S", "h">> @@
  "SECURITY" :> <<"S", "E", "C", "U", "R", "I", "T", "Y">> @@
  "Security" :> <<"S", "e", "c", "u", "r", "i", "t", "y">> @@
  "HALL" :> <<"H", "A", "L", "L">> @@
  "Hall" :> <<"H", "a", "l", "l">> @@
  "MAD SPACE" :> <<"M", "A", "D", " ", "S", "P", "A", "C", "E">> @@
  "Ms" :> <<"M", "s">> @@
  "MAD" :> <<"M", "A", "D">> @@
  "Mad" :> <<"M", "a", "d">> @@
  "SPACE" :> <<"S", "P", "A", "C", "E">> @@
  "Space" :> <<"S", "p", "a", "c", "e">> @@
  "" :> <<>> @@
  "wi" :> <<"w", "i">> @@
  "Wild Cany" :> <<"W", "i", "l", "d", " ", "C", "a", "n", "y">> @@
  "wild cany" :> <<"w", "i", "l", "d", " ", "c", "a", "n", "y">> @@
  "canyo" :> <<"c", "a", "n", "y", "o">> @@
  "wildcanyon" :> <<"w", "i", "l", "d", "c", "a", "n", "y", "o", "n">> @@
  "wild canyon x" :> <<"w", "i", "l", "d", " ", "c", "a", "n", "y", "o", "n", " ", "x">> @@
  " wc" :> <<" ", "w", "c">> @@
  "wc " :> <<"w", "c", " ">> @@
  "w c" :> <<"w", " ", "c">> @@
  "security  hall" :> <<"s", "e", "c", "u", "r", "i", "t", "y", " ", " ", "h", "a", "l", "l">> @@
  "hall of fame" :> <<"h", "a", "l", "l", " ", "o", "f", " ", "f", "a", "m", "e">> @@
  "s" :> <<"s">> @@
  "Wild Canyon 1" :> <<"W", "i", "l", "d", " ", "C", "a", "n", "y", "o", "n", " ", "1">> @@
  "wild canyon 1" :> <<"w", "i", "l", "d", " ", "c", "a", "n", "y", "o", "n", " ", "1">> @@
  "set" :> <<"s", "e", "t">> @@
  "order" :> <<"o", "r", "d", "e", "r">> @@
  "number" :> <<"n", "u", "m", "b", "e", "r">> @@
  "seed" :> <<"s", "e", "e", "d">> @@
  "ups" :> <<"u", "p", "s">> @@
  "True" :> <<"T", "r", "u", "e">> @@
  "true" :> <<"t", "r", "u", "e">>

\* the string with the given spelling
Text(chars) == CHOOSE t \in DOMAIN Spell : Spell[t] = chars

\* str.lower() on one character
UpperToLower ==
  "A" :> "a" @@ "B" :> "b" @@ "C" :> "c" @@ "D" :> "d" @@ "E" :> "e" @@ "F" :> "f" @@ "G" :> "g" @@ "H" :> "h" @@ "I" :> "i" @@ "J" :> "j" @@ "K" :> "k" @@ "L" :> "l" @@ "M" :> "m" @@ "N" :> "n" @@ "O" :> "o" @@ "P" :> "p" @@ "Q" :> "q" @@ "R" :> "r" @@ "S" :> "s" @@ "T" :> "t" @@ "U" :> "u" @@ "V" :> "v" @@ "W" :> "w" @@ "X" :> "x" @@ "Y" :> "y" @@ "Z" :> "z"

LowerChar(c) == IF c \in DOMAIN UpperToLower THEN UpperToLower[c] ELSE c

\* str.lower()
Lower(t) == Text([i \in 1..Len(Spell[t]) |-> LowerChar(Spell[t][i])])

RECURSIVE LStrip(_)
LStrip(s) == IF s # <<>> /\ Head(s) = " " THEN LStrip(Tail(s)) ELSE s

RECURSIVE RStrip(_)
RStrip(s) ==
  IF s # <<>> /\ s[Len(s)] = " " THEN RStrip(SubSeq(s, 1, Len(s) - 1)) ELSE s

\* str.strip(): drop leading and trailing blanks
Strip(t) == Text(RStrip(LStrip(Spell[t])))

(* ------------------------- the stage catalog --------------------------- *)
\* STAGES, canonical name -> aliases, in declaration order
STAGES ==
  <<
     [name |-> "Wild Canyon", abbrs |-> <<"WC", "wild", "canyon">>],
     [name |-> "Pumpkin Hill", abbrs |-> <<"PH", "pumpkin", "hill">>],
     [name |-> "Death Chamber", abbrs |-> <<"DC", "death", "chamber">>],
     [name |-> "Aquatic Mine", abbrs |-> <<"AM", "aquatic", "mine">>],
     [name |-> "Meteor Herd", abbrs |-> <<"MH", "meteor", "herd">>],
     [name |-> "Dry Lagoon", abbrs |-> <<"DL", "dry", "lagoon">>],
     [name |-> "Egg Quarters", abbrs |-> <<"EQ", "egg", "quarters">>],
     [name |-> "Security Hall", abbrs |-> <<"SH", "security", "hall">>],
     [name |-> "Mad Space", abbrs |-> <<"MS", "mad", "space">>]
  >>

\* list(STAGES.keys())
STAGE_NAMES == [i \in 1..Len(STAGES) |-> STAGES[i].name]

\* the catalog position of a canonical name
StageIndex(stage) == CHOOSE i \in 1..Len(STAGES) : STAGES[i].name = stage

\* a membership test that finds nothing
InListNever(x, list) == FALSE

\* x in list
InList(x, list) == \E i \in 1..Len(list) : list[i] = x

\* a resolver that compares the text as typed, without lower-casing it
resolve_stage_name_as_typed(stage_input) ==
  LET inp == stage_input
      exact == {i \in 1..Len(STAGES) : inp = Lower(STAGES[i].name)}
      alias == {i \in 1..Len(STAGES) :
                  \E k \in 1..Len(STAGES[i].abbrs) :
                     inp = Lower(STAGES[i].abbrs[k])}
      First(S) == CHOOSE i \in S : \A j \in S : i <= j
  IN  IF exact # {} THEN STAGES[First(exact)].name
      ELSE IF alias # {} THEN STAGES[First(alias)].name
      ELSE None

\* resolve_stage_name: first pass on the canonical names, second pass on the
\* aliases, both on lower-cased text, first hit in catalog order; None if
\* neither pass hits.
resolve_stage_name(stage_input) ==
  LET inp == Lower(stage_input)
      exact == {i \in 1..Len(STAGES) : inp = Lower(STAGES[i].name)}
      alias == {i \in 1..Len(STAGES) :
                  \E k \in 1..Len(STAGES[i].abbrs) :
                     inp = Lower(STAGES[i].abbrs[k])}
      First(S) == CHOOSE i \in S : \A j \in S : i <= j
  IN  IF exact # {} THEN STAGES[First(exact)].name
      ELSE IF alias # {} THEN STAGES[First(alias)].name
      ELSE None

(* ----------------------- decimal text of integers ---------------------- *)
Digits == <<"0", "1", "2", "3", "4", "5", "6", "7", "8", "9">>

\* str(n) for n >= 0
RECURSIVE Str(_)
Str(n) == IF n < 10 THEN <<Digits[n + 1]>>
          ELSE Str(n \div 10) \o <<Digits[(n % 10) + 1]>>

DigitVal(c) == (CHOOSE i \in 1..10 : Digits[i] = c) - 1

\* int(s) for a string of decimal digits
RECURSIVE ParseInt(_)
ParseInt(s) == IF Len(s) = 1 THEN DigitVal(s[1])
          ELSE 10 * ParseInt(SubSeq(s, 1, Len(s) - 1)) + DigitVal(s[Len(s)])

(* ------------------------ the order generator -------------------------- *)
\* an insertion-ordered dict is a sequence of <<key, value>> pairs
DictHas(d, k) == \E i \in 1..Len(d) : d[i][1] = k

\* d[k] = v: an existing key keeps its place, a new one goes last
DictSet(d, k, v) ==
  IF DictHas(d, k)
  THEN LET p == CHOOSE i \in 1..Len(d) : d[i][1] = k
       IN  SubSeq(d, 1, p - 1) \o << <<k, v>> >> \o SubSeq(d, p + 1, Len(d))
  ELSE Append(d, <<k, v>>)

\* stage_abbrs, the dict built at the top of generate_ordered_stages:
\* stage_abbrs[stage] = STAGES[stage][0].lower()
StageAbbrs ==
  [stage \in {STAGES[i].name : i \in 1..Len(STAGES)} |->
     Lower(STAGES[StageIndex(stage)].abbrs[1])]

stage_abbrs(stage) == StageAbbrs[stage]

\* abbr_to_stage, the reverse dict: the comprehension keeps the last stage
\* of an abbreviation
AbbrToStage ==
  [abbr \in {StageAbbrs[n] : n \in DOMAIN StageAbbrs} |->
     LET S == {i \in 1..Len(STAGES) : StageAbbrs[STAGES[i].name] = abbr}
     IN  STAGES[CHOOSE i \in S : \A j \in S : j <= i].name]

abbr_to_stage(abbr) == AbbrToStage[abbr]

\* [stage for stage in STAGE_NAMES if stage not in banned]
RECURSIVE Filter(_, _)
Filter(list, banned) ==
  IF list = <<>> THEN <<>>
  ELSE IF InList(Head(list), banned) THEN Filter(Tail(list), banned)
  ELSE <<Head(list)>> \o Filter(Tail(list), banned)

remaining_stages(banned) == Filter(STAGE_NAMES, banned)

\* remaining_stages[0], remaining_stages[swap_idx] swapped (0-based swap_idx)
SwapFirst(list, swap_idx) ==
  <<list[swap_idx + 1]>> \o SubSeq(list, 2, swap_idx) \o <<list[1]>>
    \o SubSeq(list, swap_idx + 2, Len(list))

\* a generator that leaves the shuffled list as it is
AfterSwapNever(shuffled, swap_idx) == shuffled

\* the list after shuffle() returned `shuffled` and randint() returned swap_idx
AfterSwap(shuffled, swap_idx) ==
  IF shuffled # <<>> /\ shuffled[1] = "Security Hall"
  THEN SwapFirst(shuffled, swap_idx)
  ELSE shuffled

RECURSIVE SetBanned(_, _)
SetBanned(d, banned) ==
  IF banned = <<>> THEN d
  ELSE SetBanned(DictSet(d, stage_abbrs(Head(banned)), Str(0)), Tail(banned))

RECURSIVE SetRanks(_, _, _)
SetRanks(d, list, i) ==
  IF list = <<>> THEN d
  ELSE SetRanks(DictSet(d, stage_abbrs(Head(list)), Str(i + 1)), Tail(list), i + 1)

RECURSIVE SetMissing(_, _)
SetMissing(d, names) ==
  IF names = <<>> THEN d
  ELSE SetMissing(IF DictHas(d, stage_abbrs(Head(names))) THEN d
                  ELSE DictSet(d, stage_abbrs(Head(names)), Str(0)),
                  Tail(names))

\* (stage_name, int(order_value), abbr) for every item of order_dict
RECURSIVE Entries(_)
Entries(d) ==
  IF d = <<>> THEN <<>>
  ELSE << <<abbr_to_stage(Head(d)[1]), ParseInt(Head(d)[2]), Head(d)[1]>> >>
       \o Entries(Tail(d))

\* a generator that numbers the remaining stages from 2
generate_ordered_stages_from_two(banned, shuffled, swap_idx) ==
  LET d1 == SetBanned(<<>>, banned)
      d2 == SetRanks(d1, AfterSwap(shuffled, swap_idx), 1)
      order_dict == SetMissing(d2, STAGE_NAMES)
  IN  Entries(order_dict)

\* generate_ordered_stages: order_dict filled with the banned stages, then the
\* shuffled (and possibly swapped) remaining stages, then whatever is missing;
\* the result lists (stage_name, int(order_value), abbr) in insertion order.
generate_ordered_stages(banned, shuffled, swap_idx) ==
  LET d1 == SetBanned(<<>>, banned)
      d2 == SetRanks(d1, AfterSwap(shuffled, swap_idx), 0)
      order_dict == SetMissing(d2, STAGE_NAMES)
  IN  Entries(order_dict)

\* list.sort(key=order): stable, ascending
RECURSIVE SortByOrder(_)
SortByOrder(list) ==
  IF list = <<>> THEN <<>>
  ELSE LET m == CHOOSE i \in 1..Len(list) :
                  /\ \A j \in 1..Len(list) : list[i][2] <= list[j][2]
                  /\ \A j \in 1..(i - 1) : list[j][2] # list[i][2]
       IN  <<list[m]>> \o
           SortByOrder(SubSeq(list, 1, m - 1) \o SubSeq(list, m + 1, Len(list)))

RECURSIVE ActiveOnly(_)
ActiveOnly(ordered) ==
  IF ordered = <<>> THEN <<>>
  ELSE IF Head(ordered)[2] > 0
       THEN <<Head(ordered)>> \o ActiveOnly(Tail(ordered))
       ELSE ActiveOnly(Tail(ordered))

\* [stage for stage, _ in active_stages]
RECURSIVE Names(_)
Names(list) ==
  IF list = <<>> THEN <<>> ELSE <<Head(list)[1]>> \o Names(Tail(list))

\* generate_split_file: the stage names with order > 0, by ascending order
stage_order(ordered) ==
  LET active == SortByOrder(ActiveOnly(ordered))
  IN  Names(active)

\* f"{stage} {i}", the stage name kept whole
Label(stage, i) == <<stage, " ">> \o Str(i)

\* a Segment named by the label alone
SegmentNameBare(stage, i, split_num, total_splits) == Label(stage, i)

\* split_name after split_name += f" ({split_num}/{total_splits})"
SegmentName(stage, i, split_num, total_splits) ==
  Label(stage, i) \o <<" ", "(">> \o Str(split_num) \o <<"/">>
    \o Str(total_splits) \o <<")">>

\* _create_livesplit_segments: split_list gets "<stage> <i>", i = 1..5, for
\* every stage of stage_order
RECURSIVE create_split_list(_)
create_split_list(order) ==
  IF order = <<>> THEN <<>>
  ELSE [i \in 1..5 |-> Label(Head(order), i)] \o create_split_list(Tail(order))

\* _create_livesplit_segments: the text of the Name element of every Segment
\* it adds, split_num running on from one stage to the next
RECURSIVE create_livesplit_segments(_, _, _)
create_livesplit_segments(order, split_num, total_splits) ==
  IF order = <<>> THEN <<>>
  ELSE [i \in 1..5 |->
          SegmentName(Head(order), i, split_num + i - 1, total_splits)]
       \o create_livesplit_segments(Tail(order), split_num + 5, total_splits)

\* a document whose running index starts at 0
split_file_segments_from_zero(ordered) ==
  LET order == stage_order(ordered)
  IN  create_livesplit_segments(order, 0, Len(order) * 5)

\* generate_split_file: the Segment names of the document it writes
split_file_segments(ordered) ==
  LET order == stage_order(ordered)
  IN  create_livesplit_segments(order, 1, Len(order) * 5)

(* --------------------------- the config file --------------------------- *)
\* Maximum seed value in tourney mod config
MAX_SEED == 2147483647

\* randint(1, MAX_SEED): the two ends of the range
Seeds == {1, MAX_SEED}

\* order_dict of generate_config_file: abbr -> str(order_value) for the
\* entries of ordered_stages, in their order
RECURSIVE OrderDict(_, _)
OrderDict(d, ordered) ==
  IF ordered = <<>> THEN d
  ELSE OrderDict(DictSet(d, Head(ordered)[3], Str(Head(ordered)[2])),
                 Tail(ordered))

\* number_dict: stage_abbrs[stage] -> "5" for stage in STAGE_NAMES
RECURSIVE NumberDict(_, _)
NumberDict(d, names) ==
  IF names = <<>> THEN d
  ELSE NumberDict(DictSet(d, stage_abbrs(Head(names)), Str(5)), Tail(names))

\* a ConfigParser whose order section was given number_dict
config_sections_number_twice(ordered, seed) ==
  << <<"set", << <<"seed", Str(seed)>>, <<"ups", Spell["True"]>> >> >>,
     <<"order", NumberDict(<<>>, STAGE_NAMES)>>,
     <<"number", NumberDict(<<>>, STAGE_NAMES)>> >>

\* the ConfigParser after the three _write_config_section calls: sections in
\* the order they were assigned, every section with its dict as given
\* (optionxform = str keeps the keys as they are)
config_sections(ordered, seed) ==
  << <<"set", << <<"seed", Str(seed)>>, <<"ups", Spell["True"]>> >> >>,
     <<"order", SetMissing(OrderDict(<<>>, ordered), STAGE_NAMES)>>,
     <<"number", NumberDict(<<>>, STAGE_NAMES)>> >>

\* the lines written for the items of one section: f"{key}={value}\n"
RECURSIVE ItemLines(_)
ItemLines(d) ==
  IF d = <<>> THEN <<>>
  ELSE << Spell[Head(d)[1]] \o <<"=">> \o Head(d)[2] >> \o ItemLines(Tail(d))

\* the lines written to config.ini: f"[{section}]\n", the items, "\n"
RECURSIVE ConfigLines(_)
ConfigLines(sections) ==
  IF sections = <<>> THEN <<>>
  ELSE << <<"[">> \o Spell[Head(sections)[1]] \o <<"]">> >>
       \o ItemLines(Head(sections)[2]) \o << <<>> >>
       \o ConfigLines(Tail(sections))

\* generate_config_file: the text of config.ini, line by line
config_file_lines(ordered, seed) == ConfigLines(config_sections(ordered, seed))

\* reading the text back: a "[name]" line opens a section, a "key=value" line
\* adds an item to the section that is open, an empty line adds nothing
IndexOf(line, c) == CHOOSE i \in 1..Len(line) :
                      line[i] = c /\ \A j \in 1..(i - 1) : line[j] # c

AddItem(sections, line) ==
  LET n == Len(sections)
      eq == IndexOf(line, "=")
      key == Text(SubSeq(line, 1, eq - 1))
      value == SubSeq(line, eq + 1, Len(line))
  IN  SubSeq(sections, 1, n - 1)
      \o << <<sections[n][1], DictSet(sections[n][2], key, value)>> >>

RECURSIVE ParseLines(_, _)
ParseLines(sections, lines) ==
  IF lines = <<>> THEN sections
  ELSE LET line == Head(lines)
       IN  ParseLines(
             IF line = <<>> THEN sections
             ELSE IF Head(line) = "["
             THEN Append(sections,
                         <<Text(SubSeq(line, 2, Len(line) - 1)), <<>> >>)
             ELSE AddItem(sections, line),
             Tail(lines))

parse_config(lines) == ParseLines(<<>>, lines)

\* list reversed
Reverse(list) == [i \in 1..Len(list) |-> list[Len(list) + 1 - i]]

\* the outcomes of shuffle() explored with the draft: the list as it was and
\* the list reversed
Shuffles(list) == {list, Reverse(list)}

\* randint(1, len - 1), drawn only when Security Hall was shuffled to the
\* front; the two ends of the range are explored with the draft
SwapChoices(shuffled) ==
  IF shuffled # <<>> /\ shuffled[1] = "Security Hall"
  THEN {1, Len(shuffled) - 1}
  ELSE {0}

\* what generate_ordered_stages can return for the banned stages
Orderings(banned) ==
  {generate_ordered_stages(banned, shuffled, swap_idx) :
     <<shuffled, swap_idx>> \in
        {<<sh, sw>> \in Shuffles(remaining_stages(banned)) \X (0..Len(STAGES)) :
           sw \in SwapChoices(sh)}}

(* ------------------------------ inputs --------------------------------- *)
\* runner names given to !start (tokens[1], tokens[2])
StartInputs == { <<"Alice", "Bob">> }

\* lines typed at the console prompt
ConsoleInputs == {"WC", "wc", "pumpkin", " MS ", "xyz"}

\* resolve_stage_name(input().strip()) for each of the lines above
ResolvedInput ==
  [stage_input \in ConsoleInputs |-> resolve_stage_name(Strip(stage_input))]

\* the stages those lines can ban, and the lists banned_stages can hold
Bannable == {ResolvedInput[i] : i \in ConsoleInputs} \ {None}

RECURSIVE ListsOver(_, _)
ListsOver(S, n) ==
  IF n = 0 THEN {<<>>}
  ELSE LET shorter == ListsOver(S, n - 1)
       IN  shorter \cup {Append(l, x) : l \in shorter, x \in S}

BannedLists == ListsOver(Bannable, Cardinality(Bannable))

\* Orderings, worked out once for every list banned_stages can hold
OrderingsOf == [banned \in BannedLists |-> Orderings(banned)]

(* ------------------------------- state --------------------------------- *)
VARIABLES
  \* DraftManager fields
  runner1, runner2, first_banner, second_banner, banned_stages, current_turn,
  draft_active, countdown_channel, waiting_for_ban1, waiting_for_ban2,
  ordered_stages, split_list, output_lines,
  \* the console input thread: where it is, the future it waits on, the
  \* banner named by the prompt it is sitting at
  console_pc, console_future, prompted,
  \* the event loop: !start handlers suspended in the countdown, and the
  \* process_ban coroutines
  pending_starts, bans,
  \* the counters the bounds cap
  starts, timeouts, submissions,
  \* observation only: what the step just taken reported about a ban input,
  \* which process_ban appended each entry of banned_stages, how many bans of
  \* the current draft ran to completion, whether an artifact write of the
  \* current draft failed
  result, ban_turns, completed, write_failed,
  \* The functions taken on their own (SpecFiles, SpecResolve).  Their
  \* arguments: the outcomes of shuffle() and of the two randint() calls, the
  \* text handed to resolve_stage_name.  What they return or write: the lines
  \* of config.ini, the Segment names of the .lss document, the sections a
  \* reader of config.ini gets, the resolved name.  The draft machine keeps
  \* of the two files what the DraftManager keeps, ordered_stages and
  \* split_list, of which the text of both files is a function.
  shuffled, swap_idx, seed, typed_text,
  config_text, segments, parsed, resolved_name

session == <<runner1, runner2, first_banner, second_banner, banned_stages,
             current_turn, draft_active, countdown_channel, waiting_for_ban1,
             waiting_for_ban2, ordered_stages, split_list>>

console == <<console_pc, console_future, prompted>>

counters == <<starts, timeouts, submissions>>

observed == <<ban_turns, completed, write_failed>>

inputs == <<shuffled, swap_idx, seed, typed_text>>

outputs == <<config_text, segments, parsed, resolved_name>>

vars == <<session, output_lines, console, pending_starts, bans, counters,
          result, observed, inputs, outputs>>

BanIds == 1..MaxInFlight

\* a coroutine slot nobody runs in
FreeSlot == [pc |-> "free", kind |-> 0, stage |-> None, banner |-> None,
             next_banner |-> None, stale |-> FALSE]

\* DraftManager.__init__, no thread, nothing scheduled
Init ==
  /\ runner1 = None
  /\ runner2 = None
  /\ first_banner = None
  /\ second_banner = None
  /\ banned_stages = <<>>
  /\ current_turn = None
  /\ draft_active = FALSE
  /\ countdown_channel = FALSE
  /\ waiting_for_ban1 = FALSE
  /\ waiting_for_ban2 = FALSE
  /\ ordered_stages = <<>>
  /\ split_list = <<>>
  /\ output_lines = << <<>>, "", "" >>
  /\ console_pc = "none"
  /\ console_future = 0
  /\ prompted = None
  /\ pending_starts = 0
  /\ bans = [id \in BanIds |-> FreeSlot]
  /\ starts = 0
  /\ timeouts = 0
  /\ submissions = 0
  /\ result = "none"
  /\ ban_turns = <<>>
  /\ completed = 0
  /\ write_failed = FALSE
  /\ config_text = <<>>
  /\ segments = <<>>
  /\ shuffled = None
  /\ swap_idx = None
  /\ seed = None
  /\ typed_text = None
  /\ resolved_name = <<>>
  /\ parsed = None

\* every coroutine alive at a reset belongs to a draft that is gone
MarkStale(b) ==
  [id \in BanIds |-> IF b[id].pc = "free" THEN b[id]
                     ELSE [b[id] EXCEPT !.stale = TRUE]]

(* ---------------------------- !end, !start ----------------------------- *)
\* DraftManager.reset() with clear_draft_status(), but for the fields the
\* caller assigns right after it
reset ==
  /\ banned_stages' = <<>>
  /\ waiting_for_ban1' = FALSE
  /\ waiting_for_ban2' = FALSE
  /\ ordered_stages' = <<>>
  /\ split_list' = <<>>
  /\ bans' = MarkStale(bans)
  /\ ban_turns' = <<>>
  /\ completed' = 0
  /\ write_failed' = FALSE

\* on_message, command "end": reset()
End ==
  /\ reset
  /\ runner1' = None
  /\ runner2' = None
  /\ first_banner' = None
  /\ second_banner' = None
  /\ current_turn' = None
  /\ draft_active' = FALSE
  /\ countdown_channel' = FALSE
  /\ output_lines' = << <<>>, "", "" >>
  /\ result' = "none"
  /\ UNCHANGED <<console, pending_starts, counters>>
  /\ UNCHANGED <<inputs, outputs>>

\* a coin flip whose second outcome names the same runner twice
CoinFlipSame(a, b, coin_flip) == IF coin_flip = 0 THEN <<a, b>> ELSE <<b, b>>

\* the coin flip: first_banner and second_banner for choice([0, 1])
CoinFlip(a, b, coin_flip) == IF coin_flip = 0 THEN <<a, b>> ELSE <<b, a>>

\* _handle_start_command up to its first await: reset(), the runners, the
\* channel, the status line, the coin flip.  The role, argument-count and
\* name-length checks return before touching the DraftManager.
StartBegin(a, b, is_text, coin_flip) ==
  /\ starts < MaxStarts
  /\ pending_starts < MaxPendingStarts
  /\ reset
  /\ runner1' = a
  /\ runner2' = b
  /\ draft_active' = TRUE
  /\ countdown_channel' = is_text
  /\ output_lines' = << <<"The draft is starting!">>, "", "" >>
  /\ first_banner' = CoinFlip(a, b, coin_flip)[1]
  /\ second_banner' = CoinFlip(a, b, coin_flip)[2]
  /\ current_turn' = first_banner'
  /\ pending_starts' = pending_starts + 1
  /\ starts' = starts + 1
  /\ result' = "none"
  /\ UNCHANGED <<console, timeouts, submissions>>
  /\ UNCHANGED <<inputs, outputs>>

\* start_console_input: a new thread unless one is alive
start_console_input(pc) == IF pc = "none" THEN "loop" ELSE pc

\* _handle_start_command after the countdown: the status line names the
\* first banner of that moment, waiting_for_ban1 is set, and
\* start_console_input is called.
StartFinish ==
  /\ pending_starts > 0
  /\ pending_starts' = pending_starts - 1
  /\ output_lines' = [output_lines EXCEPT ![1] = <<first_banner, "'s turn to ban">>]
  /\ waiting_for_ban1' = TRUE
  /\ console_pc' = start_console_input(console_pc)
  /\ result' = "none"
  /\ UNCHANGED <<runner1, runner2, first_banner, second_banner, banned_stages,
                 current_turn, draft_active, countdown_channel,
                 waiting_for_ban2, ordered_stages, split_list,
                 console_future, prompted, bans, counters, observed>>
  /\ UNCHANGED <<inputs, outputs>>

(* ----------------------- the console input thread ---------------------- *)
\* console_input_loop, top of the while: leave when the draft is not active,
\* prompt for current_turn when a ban is awaited, otherwise sleep and look
\* again.
ConsoleLoop ==
  /\ console_pc = "loop"
  /\ IF ~draft_active
     THEN console_pc' = "exiting" /\ prompted' = None
     ELSE /\ waiting_for_ban1 \/ waiting_for_ban2
          /\ console_pc' = "input"
          /\ prompted' = current_turn
  /\ result' = "none"
  /\ UNCHANGED <<session, output_lines, console_future, pending_starts, bans,
                 counters, observed>>
  /\ UNCHANGED <<inputs, outputs>>

\* the thread function has returned; is_alive() turns false
ConsoleExit ==
  /\ console_pc = "exiting"
  /\ console_pc' = "none"
  /\ result' = "none"
  /\ UNCHANGED <<session, output_lines, console_future, prompted,
                 pending_starts, bans, counters, observed>>
  /\ UNCHANGED <<inputs, outputs>>

\* the lowest coroutine slot that is free
NextFree == CHOOSE id \in BanIds :
              /\ bans[id].pc = "free"
              /\ \A j \in BanIds : bans[j].pc = "free" => id <= j

\* a console loop that lacks the test against banned_stages
InputVerdictNoBanned(full_stage_name, banned, waiting1) ==
  IF full_stage_name = None THEN "UnresolvedStage"
  ELSE IF waiting1 THEN "process_ban1"
  ELSE "process_ban2"

\* what console_input_loop does with the resolved name: the two tests that
\* send it back to the prompt, else which coroutine it schedules
InputVerdict(full_stage_name, banned, waiting1) ==
  IF full_stage_name = None THEN "UnresolvedStage"
  ELSE IF InList(full_stage_name, banned) THEN "AlreadyBanned"
  ELSE IF waiting1 THEN "process_ban1"
  ELSE "process_ban2"

\* input() returned stage_input: resolve it; an unknown or already banned
\* stage sends the thread back to the top of the loop; anything else is
\* handed to process_ban1 or process_ban2 by run_coroutine_threadsafe.
ConsoleInput(stage_input) ==
  /\ console_pc = "input"
  /\ LET full_stage_name == ResolvedInput[stage_input]
         verdict == InputVerdict(full_stage_name, banned_stages, waiting_for_ban1)
     IN  IF verdict \in {"UnresolvedStage", "AlreadyBanned"}
         THEN /\ result' = verdict
              /\ console_pc' = "loop"
              /\ UNCHANGED <<console_future, bans, submissions>>
         ELSE /\ submissions < MaxSubmissions
              /\ \E id \in BanIds : bans[id].pc = "free"
              /\ submissions' = submissions + 1
              /\ bans' = [bans EXCEPT ![NextFree] =
                            [pc |-> "scheduled",
                             kind |-> IF verdict = "process_ban1" THEN 1 ELSE 2,
                             stage |-> full_stage_name,
                             banner |-> None, next_banner |-> None,
                             stale |-> FALSE]]
              /\ console_pc' = "wait"
              /\ console_future' = NextFree
              /\ result' = "none"
  /\ prompted' = None
  /\ UNCHANGED <<session, output_lines, pending_starts, starts, timeouts,
                 observed>>
  /\ UNCHANGED <<inputs, outputs>>

\* future.result(timeout=300) raised TimeoutError while the coroutine is
\* suspended at an await; the coroutine goes on, the thread loops again
ConsoleTimeout ==
  /\ timeouts < MaxTimeouts
  /\ console_pc = "wait"
  /\ bans[console_future].pc \in {"sleeping", "delivering"}
  /\ console_pc' = "loop"
  /\ console_future' = 0
  /\ timeouts' = timeouts + 1
  /\ result' = "none"
  /\ UNCHANGED <<session, output_lines, prompted, pending_starts, bans,
                 starts, submissions, observed>>
  /\ UNCHANGED <<inputs, outputs>>

(* ----------------------- the process_ban coroutines -------------------- *)
\* process_ban1 / process_ban2: the arguments handed to _process_ban
BannerOf(kind) == IF kind = 1 THEN first_banner ELSE second_banner

NextBannerOf(kind) == IF kind = 1 THEN second_banner ELSE None

\* line_index, as a position of output_lines counted from 1
LineOf(kind) == IF BannerOf(kind) = runner1 THEN 2 ELSE 3

\* getattr(self.draft_manager, waiting_attr)
WaitingAttr(kind) == IF kind = 1 THEN waiting_for_ban1 ELSE waiting_for_ban2

\* the first test of _process_ban: true when the ban is to be dropped
NotAwaitingBan(kind) == ~draft_active \/ ~WaitingAttr(kind)

\* the coroutine of slot id is over: its future is set, and the thread
\* waiting on that future goes on to its sleep and the top of its loop
Finished(id) ==
  /\ bans' = [bans EXCEPT ![id] = FreeSlot]
  /\ IF console_pc = "wait" /\ console_future = id
     THEN console_pc' = "loop" /\ console_future' = 0
     ELSE UNCHANGED <<console_pc, console_future>>
  /\ prompted' = prompted

\* _process_ban from its first line to its first await: drop the ban unless
\* the draft is active and this ban is awaited, else record the stage and
\* write the status lines.
BanBegin(id) ==
  /\ bans[id].pc = "scheduled"
  /\ LET kind == bans[id].kind
         banner == BannerOf(kind)
     IN  IF NotAwaitingBan(kind)
         THEN /\ result' = "NotAwaitingBan"
              /\ Finished(id)
              /\ UNCHANGED <<session, output_lines, observed>>
         ELSE IF banner = None
         THEN /\ result' = "BannerNone"
              /\ Finished(id)
              /\ UNCHANGED <<session, output_lines, observed>>
         ELSE /\ banned_stages' = Append(banned_stages, bans[id].stage)
              /\ output_lines' =
                   [output_lines EXCEPT
                      ![LineOf(kind)] = bans[id].stage,
                      ![1] = <<banner, " banned ", bans[id].stage>>]
              /\ bans' = [bans EXCEPT ![id].pc = "sleeping",
                                      ![id].banner = banner,
                                      ![id].next_banner = NextBannerOf(kind)]
              /\ result' = "Recorded"
              /\ ban_turns' = Append(ban_turns, kind)
              /\ UNCHANGED <<runner1, runner2, first_banner, second_banner,
                             current_turn, draft_active, countdown_channel,
                             waiting_for_ban1, waiting_for_ban2,
                             ordered_stages, split_list, console,
                             completed, write_failed>>
  /\ UNCHANGED <<pending_starts, counters>>
  /\ UNCHANGED <<inputs, outputs>>

\* is_final_ban is False for process_ban1, True for process_ban2
IsFinalBan(kind) == kind = 2

\* the branch taken after the sleep
SwitchesTurn(id) == ~IsFinalBan(bans[id].kind) /\ bans[id].next_banner # None

\* a ban of the current draft that ran to its end
Completed(id) == IF bans[id].stale THEN completed ELSE completed + 1

\* _process_ban after asyncio.sleep(3), not the final ban: the turn goes to
\* next_banner, waiting_attr is cleared and next_waiting_attr is set.
BanSwitchTurn(id) ==
  /\ bans[id].pc = "sleeping"
  /\ SwitchesTurn(id)
  /\ current_turn' = bans[id].next_banner
  /\ output_lines' = [output_lines EXCEPT ![1] = <<bans[id].next_banner, "'s turn to ban">>]
  /\ waiting_for_ban1' = FALSE
  /\ waiting_for_ban2' = TRUE
  /\ Finished(id)
  /\ completed' = Completed(id)
  /\ result' = "none"
  /\ UNCHANGED <<runner1, runner2, first_banner, second_banner, banned_stages,
                 draft_active, countdown_channel, ordered_stages, split_list,
                 pending_starts, counters, ban_turns, write_failed>>
  /\ UNCHANGED <<inputs, outputs>>

\* the last two assignments of _process_ban
ResetDraftStatus ==
  /\ waiting_for_ban2' = FALSE
  /\ draft_active' = FALSE

\* where generate_config_file / generate_split_file can raise OSError:
\* makedirs of the config, the write of the config (or makedirs of the
\* splits, the same state), the write of the splits
WriteOutcomes == {"ok", "config_dir", "config_write", "split_write"}

\* _process_ban after asyncio.sleep(3), the final ban: the status line, the
\* ordering and the two files.  An OSError leaves the coroutine at once and
\* reaches the console thread through future.result().  Without a channel
\* there is no await left and the draft status is reset in the same step.
BanConclude(id) ==
  /\ bans[id].pc = "sleeping"
  /\ ~SwitchesTurn(id)
  /\ \E ordering \in OrderingsOf[banned_stages], outcome \in WriteOutcomes :
       /\ ordered_stages' =
            IF outcome = "config_dir" THEN ordered_stages ELSE ordering
       /\ split_list' =
            IF outcome \in {"config_dir", "config_write"} THEN split_list
            ELSE create_split_list(stage_order(ordering))
       /\ IF outcome # "ok"
          THEN /\ result' = "ArtifactWriteError"
               /\ write_failed' = (write_failed \/ ~bans[id].stale)
               /\ Finished(id)
               /\ UNCHANGED <<waiting_for_ban2, draft_active, completed>>
          ELSE IF countdown_channel
          THEN /\ bans' = [bans EXCEPT ![id].pc = "delivering"]
               /\ result' = "none"
               /\ UNCHANGED <<waiting_for_ban2, draft_active, console,
                              completed, write_failed>>
          ELSE /\ ResetDraftStatus
               /\ Finished(id)
               /\ completed' = Completed(id)
               /\ result' = "none"
               /\ UNCHANGED write_failed
  /\ output_lines' = [output_lines EXCEPT ![1] = <<"Draft concluded">>]
  /\ UNCHANGED <<runner1, runner2, first_banner, second_banner, banned_stages,
                 current_turn, countdown_channel, waiting_for_ban1,
                 pending_starts, counters, ban_turns>>
  /\ UNCHANGED <<inputs, outputs>>

\* _process_ban after the files went to the channel(s): reset the draft status
BanFinish(id) ==
  /\ bans[id].pc = "delivering"
  /\ ResetDraftStatus
  /\ Finished(id)
  /\ completed' = Completed(id)
  /\ result' = "none"
  /\ UNCHANGED <<runner1, runner2, first_banner, second_banner, banned_stages,
                 current_turn, countdown_channel, waiting_for_ban1,
                 ordered_stages, split_list, output_lines, pending_starts,
                 counters, ban_turns, write_failed>>
  /\ UNCHANGED <<inputs, outputs>>

(* --------------------------- specification ----------------------------- *)
Next ==
  \/ End
  \/ \E names \in StartInputs, is_text \in BOOLEAN, coin_flip \in {0, 1} :
       StartBegin(names[1], names[2], is_text, coin_flip)
  \/ StartFinish
  \/ ConsoleLoop
  \/ ConsoleExit
  \/ \E stage_input \in ConsoleInputs : ConsoleInput(stage_input)
  \/ ConsoleTimeout
  \/ \E id \in BanIds : BanBegin(id)
  \/ \E id \in BanIds : BanSwitchTurn(id)
  \/ \E id \in BanIds : BanConclude(id)
  \/ \E id \in BanIds : BanFinish(id)

Spec == Init /\ [][Next]_vars

(* ------------------------------ phases --------------------------------- *)
\* the phases of the draft as the DraftManager fields show them
Idle ==
  /\ runner1 = None
  /\ ~draft_active
  /\ ~waiting_for_ban1
  /\ ~waiting_for_ban2

Concluded ==
  /\ runner1 # None
  /\ ~draft_active
  /\ ~waiting_for_ban1
  /\ ~waiting_for_ban2

NoDuplicates(list) ==
  \A i \in 1..Len(list) : \A j \in 1..Len(list) : list[i] = list[j] => i = j

\* the ban of slot id is recorded and its turn has not been advanced yet
Recorded(id) == bans[id].pc = "sleeping" /\ ~bans[id].stale

(* ---------------------- the functions on their own -------------------- *)
\* how many leading positions of the shuffled list are arranged freely
MaxShufflePrefix == 2

\* the list without its i-th element
Remove(list, i) == SubSeq(list, 1, i - 1) \o SubSeq(list, i + 1, Len(list))

\* outcomes of shuffle(list): any k distinct elements in front, in any
\* order, the others behind them in the order they had
RECURSIVE Arrangements(_, _)
Arrangements(list, k) ==
  IF k = 0 \/ list = <<>> THEN {list}
  ELSE UNION { { <<list[i]>> \o rest :
                   rest \in Arrangements(Remove(list, i), k - 1) } :
               i \in 1..Len(list) }

\* outcomes of randint(1, len(remaining_stages) - 1), drawn only when
\* Security Hall was shuffled to the front
SwapIndexes(list) ==
  IF list # <<>> /\ list[1] = "Security Hall"
  THEN 1..(Len(list) - 1)
  ELSE {0}

\* banned_stages as a draft hands it to the generator: no, one or two
\* distinct stages
BanChoices ==
  {l \in ListsOver({STAGE_NAMES[i] : i \in 1..Len(STAGE_NAMES)}, 2) :
     NoDuplicates(l)}

\* every variable of the draft machine but banned_stages, ordered_stages and
\* split_list
machine == <<runner1, runner2, first_banner, second_banner, current_turn,
             draft_active, countdown_channel, waiting_for_ban1,
             waiting_for_ban2, output_lines, console, pending_starts, bans,
             counters, result, observed>>

\* the draft machine as DraftManager.__init__ leaves it
MachineInit ==
  /\ runner1 = None
  /\ runner2 = None
  /\ first_banner = None
  /\ second_banner = None
  /\ current_turn = None
  /\ draft_active = FALSE
  /\ countdown_channel = FALSE
  /\ waiting_for_ban1 = FALSE
  /\ waiting_for_ban2 = FALSE
  /\ output_lines = << <<>>, "", "" >>
  /\ console_pc = "none"
  /\ console_future = 0
  /\ prompted = None
  /\ pending_starts = 0
  /\ bans = [id \in BanIds |-> FreeSlot]
  /\ starts = 0
  /\ timeouts = 0
  /\ submissions = 0
  /\ result = "none"
  /\ ban_turns = <<>>
  /\ completed = 0
  /\ write_failed = FALSE

\* generate_config_file and generate_split_file on a DraftManager whose
\* banned_stages is given, with the outcomes of shuffle() and randint() given
InitFiles ==
  /\ MachineInit
  /\ banned_stages \in BanChoices
  /\ shuffled \in Arrangements(remaining_stages(banned_stages), MaxShufflePrefix)
  /\ swap_idx \in SwapIndexes(shuffled)
  /\ seed \in Seeds
  /\ ordered_stages = <<>>
  /\ split_list = <<>>
  /\ config_text = <<>>
  /\ segments = <<>>
  /\ parsed = None
  /\ typed_text = None
  /\ resolved_name = <<>>

\* generate_config_file: generate_ordered_stages sets ordered_stages, the
\* text goes to config.ini
generate_config_file ==
  /\ config_text = <<>>
  /\ ordered_stages' = generate_ordered_stages(banned_stages, shuffled, swap_idx)
  /\ config_text' = config_file_lines(ordered_stages', seed)
  /\ UNCHANGED <<machine, banned_stages, split_list, inputs, segments, parsed,
                 resolved_name>>

\* generate_split_file: split_list and the document from self.ordered_stages
generate_split_file ==
  /\ config_text # <<>>
  /\ segments = <<>>
  /\ split_list' = create_split_list(stage_order(ordered_stages))
  /\ segments' = split_file_segments(ordered_stages)
  /\ UNCHANGED <<machine, banned_stages, ordered_stages, inputs, config_text,
                 parsed, resolved_name>>

\* the tourney mod reading config.ini back
read_config ==
  /\ segments # <<>>
  /\ parsed = None
  /\ parsed' = parse_config(config_text)
  /\ UNCHANGED <<machine, banned_stages, ordered_stages, split_list, inputs,
                 config_text, segments, resolved_name>>

NextFiles ==
  \/ generate_config_file
  \/ generate_split_file
  \/ read_config

SpecFiles == InitFiles /\ [][NextFiles]_vars

\* texts handed to resolve_stage_name: every canonical name and alias as
\* declared, in lower case, in upper case and capitalised, and texts that are
\* near a name or an alias without being one
ResolveInputs ==
  { "Wild Canyon", "wild canyon", "WILD CANYON", "WC", "wc", "Wc", "wild",
    "WILD", "Wild", "canyon", "CANYON", "Canyon", "Pumpkin Hill",
    "pumpkin hill", "PUMPKIN HILL", "PH", "ph", "Ph", "pumpkin", "PUMPKIN",
    "Pumpkin", "hill", "HILL", "Hill", "Death Chamber", "death chamber",
    "DEATH CHAMBER", "DC", "dc", "Dc", "death", "DEATH", "Death", "chamber",
    "CHAMBER", "Chamber", "Aquatic Mine", "aquatic mine", "AQUATIC MINE",
    "AM", "am", "Am", "aquatic", "AQUATIC", "Aquatic", "mine", "MINE",
    "Mine", "Meteor Herd", "meteor herd", "METEOR HERD", "MH", "mh", "Mh",
    "meteor", "METEOR", "Meteor", "herd", "HERD", "Herd", "Dry Lagoon",
    "dry lagoon", "DRY LAGOON", "DL", "dl", "Dl", "dry", "DRY", "Dry",
    "lagoon", "LAGOON", "Lagoon", "Egg Quarters", "egg quarters",
    "EGG QUARTERS", "EQ", "eq", "Eq", "egg", "EGG", "Egg", "quarters",
    "QUARTERS", "Quarters", "Security Hall", "security hall",
    "SECURITY HALL", "SH", "sh", "Sh", "security", "SECURITY", "Security",
    "hall", "HALL", "Hall", "Mad Space", "mad space", "MAD SPACE", "MS",
    "ms", "Ms", "mad", "MAD", "Mad", "space", "SPACE", "Space", "", "xyz",
    "wi", "Wild Cany", "canyo", "wildcanyon", "wild canyon x", " wc", "wc ",
    "w c", "security  hall", "hall of fame", "s", "Wild Canyon 1" }

\* resolve_stage_name on a text of ResolveInputs
InitResolve ==
  /\ MachineInit
  /\ banned_stages = <<>>
  /\ ordered_stages = <<>>
  /\ split_list = <<>>
  /\ shuffled = None
  /\ swap_idx = None
  /\ seed = None
  /\ config_text = <<>>
  /\ segments = <<>>
  /\ parsed = None
  /\ typed_text \in ResolveInputs
  /\ resolved_name = <<>>

\* the call: resolved_name holds what it returned
Resolve ==
  /\ resolved_name = <<>>
  /\ resolved_name' = <<resolve_stage_name(typed_text)>>
  /\ UNCHANGED <<machine, banned_stages, ordered_stages, split_list, inputs,
                 config_text, segments, parsed>>

NextResolve == Resolve

SpecResolve == InitResolve /\ [][NextResolve]_vars

(* ------------------- one draft, scheduled fairly ----------------------- *)
\* the one !start of the draft looked at: no !end and no second !start
LiveStart ==
  /\ starts = 0
  /\ \E names \in StartInputs, is_text \in BOOLEAN, coin_flip \in {0, 1} :
       StartBegin(names[1], names[2], is_text, coin_flip)

\* a line typed at the prompt that resolves to a stage not yet banned
AcceptedInput ==
  \E stage_input \in ConsoleInputs :
    /\ ResolvedInput[stage_input] # None
    /\ ~InList(ResolvedInput[stage_input], banned_stages)
    /\ ConsoleInput(stage_input)

NextLive ==
  \/ LiveStart
  \/ StartFinish
  \/ ConsoleLoop
  \/ ConsoleExit
  \/ \E stage_input \in ConsoleInputs : ConsoleInput(stage_input)
  \/ ConsoleTimeout
  \/ \E id \in BanIds : BanBegin(id)
  \/ \E id \in BanIds : BanSwitchTurn(id)
  \/ \E id \in BanIds : BanConclude(id)
  \/ \E id \in BanIds : BanFinish(id)

\* BanConclude(id) can be taken: whatever the outcome of the writes, the
\* step leaves the coroutine's slot changed
ConcludeReady(id) == bans[id].pc = "sleeping" /\ ~SwitchesTurn(id)

\* the event loop runs every coroutine that is ready and every sleep ends;
\* the console thread runs; a line that can be accepted keeps being typed.
\* The condition on BanConclude is weak fairness with its enabling
\* condition written out.
Fairness ==
  /\ WF_vars(StartFinish)
  /\ \A id \in BanIds :
       /\ WF_vars(BanBegin(id))
       /\ WF_vars(BanSwitchTurn(id))
       /\ ([]<>~ConcludeReady(id)) \/ ([]<><<BanConclude(id)>>_vars)
       /\ WF_vars(BanFinish(id))
  /\ WF_vars(ConsoleLoop)
  /\ WF_vars(ConsoleExit)
  /\ SF_vars(AcceptedInput)

SpecLive == Init /\ [][NextLive]_vars /\ Fairness

(* ------------------------------- claims -------------------------------- *)
\* C1: in a draft that was started and not reset, once two ban submissions
\* have run to completion the session is Concluded, banned_stages holds
\* exactly two distinct stages, the first recorded by process_ban1 and the
\* second by process_ban2, and a ban that arrives after that is dropped as
\* NotAwaitingBan with banned_stages unchanged.
C1_TwoBansConclude ==
  /\ [](runner1 # None /\ completed = 2 =>
          /\ Concluded
          /\ Len(banned_stages) = 2
          /\ NoDuplicates(banned_stages)
          /\ ban_turns = <<1, 2>>)
  /\ [][\A id \in BanIds :
          (runner1 # None /\ completed = 2 /\ bans[id].pc = "scheduled"
             /\ bans'[id].pc # "scheduled")
          => (result' = "NotAwaitingBan" /\ banned_stages' = banned_stages)]_vars

\* C2: whenever the stage ordering is generated, banned_stages holds exactly
\* two distinct stages, the first recorded in the first banner's turn and the
\* second in the second banner's turn.
C2_OrderingFromTwoBans ==
  [][(ordered_stages' # ordered_stages /\ ordered_stages' # <<>>)
     => /\ Len(banned_stages) = 2
        /\ NoDuplicates(banned_stages)
        /\ ban_turns = <<1, 2>>]_vars

\* C3: two bans of the same turn of the same draft are never both recorded:
\* of two process_ban1 (or two process_ban2) coroutines alive together, at
\* most one has appended its stage.
C3_OneBanPerTurn ==
  \A i \in BanIds : \A j \in BanIds :
    (i # j /\ Recorded(i) /\ Recorded(j)) => bans[i].kind # bans[j].kind

\* every field that reset() clears is clear
AllCleared ==
  /\ runner1 = None
  /\ runner2 = None
  /\ first_banner = None
  /\ second_banner = None
  /\ current_turn = None
  /\ banned_stages = <<>>
  /\ ordered_stages = <<>>
  /\ split_list = <<>>
  /\ ~waiting_for_ban1
  /\ ~waiting_for_ban2
  /\ ~draft_active

\* C4: a reset clears every field of the session, and from then until a
\* !start begins or ends nothing changes the session (but another reset).
C4_ResetStaysIdle ==
  /\ [][(runner1 # None /\ runner1' = None) => AllCleared']_vars
  /\ [][(runner1 = None /\ runner1' = None
           /\ pending_starts' = pending_starts)
        => (session' = session \/ AllCleared')]_vars

\* C5: the length of banned_stages matches the phase: 0 in Idle, 0 while
\* waiting_for_ban1, 1 while waiting_for_ban2, 2 once Concluded; never more
\* than 2 entries, never a duplicate.
C5_BanCountMatchesPhase ==
  /\ Idle => Len(banned_stages) = 0
  /\ waiting_for_ban1 => Len(banned_stages) = 0
  /\ waiting_for_ban2 => Len(banned_stages) = 1
  /\ Concluded => Len(banned_stages) = 2
  /\ Len(banned_stages) <= 2
  /\ NoDuplicates(banned_stages)

\* the first !start of the run has been issued and nothing has reset the
\* draft since
FirstDraft == starts = 1 /\ runner1 # None

\* C6, for the first draft of a run, with distinct runners, as long as
\* nothing resets it: current_turn names the first banner exactly while the
\* first ban is awaited (the countdown of !start included), the second banner
\* exactly while the second ban is awaited, and is None once Concluded.
C6_TurnMatchesPhase ==
  (FirstDraft /\ runner1 # runner2) =>
    /\ waiting_for_ban1 => current_turn = first_banner
    /\ waiting_for_ban2 => current_turn = second_banner
    /\ current_turn = first_banner => (waiting_for_ban1 \/ pending_starts > 0)
    /\ current_turn = second_banner => waiting_for_ban2
    /\ Concluded => current_turn = None

\* C7: a ban that starts processing while the session is Idle or Concluded
\* is dropped as NotAwaitingBan and changes neither the session nor the
\* status lines; and a Concluded session is changed only by a reset or by a
\* !start (its beginning or its end).
C7_NoOpOutsideDraft ==
  /\ [][\A id \in BanIds :
          ((Idle \/ Concluded) /\ bans[id].pc = "scheduled"
             /\ bans'[id].pc # "scheduled")
          => (result' = "NotAwaitingBan"
              /\ UNCHANGED <<session, output_lines>>)]_vars
  /\ [][(Concluded /\ session' # session)
        => (runner1' = None \/ starts' # starts
            \/ pending_starts' # pending_starts)]_vars

\* the line resolves to no stage or to a stage already banned
Rejected(stage_input) ==
  \/ ResolvedInput[stage_input] = None
  \/ InList(ResolvedInput[stage_input], banned_stages)

\* C8: a console line that resolves to no stage, or to a stage already in
\* banned_stages, is reported as UnresolvedStage or AlreadyBanned, changes
\* nothing of the session, the status lines or the coroutines, and sends the
\* thread back to its prompt; and the prompt names current_turn, which the
\* rejection left as it was.
C8_RejectionKeepsState ==
  /\ [][\A stage_input \in ConsoleInputs :
          (Rejected(stage_input) /\ ConsoleInput(stage_input))
          => /\ UNCHANGED <<session, output_lines, bans, submissions>>
             /\ result' = IF ResolvedInput[stage_input] = None
                          THEN "UnresolvedStage" ELSE "AlreadyBanned"
             /\ console_pc' = "loop"]_vars
  /\ [][(console_pc # "input" /\ console_pc' = "input")
        => (prompted' = current_turn /\ UNCHANGED session)]_vars

\* C8 witness: the second banner's prompt has just turned down a stage that
\* is already banned
C8_Witness ==
  /\ result = "AlreadyBanned"
  /\ console_pc = "loop"
  /\ waiting_for_ban2
  /\ draft_active
  /\ Len(banned_stages) = 1

\* C9: once an artifact write of the draft's final ban has failed, the
\* session is Concluded with exactly the two recorded bans (so that no
\* further ban is awaited).
C9_WriteFailureKeepsConcluded ==
  write_failed =>
    /\ ~draft_active
    /\ ~waiting_for_ban1
    /\ ~waiting_for_ban2
    /\ Len(banned_stages) = 2

C10_WitnessFirstName ==
  /\ first_banner = "Alice"
  /\ second_banner = "Bob"
  /\ current_turn = "Alice"
  /\ draft_active
  /\ waiting_for_ban1
  /\ banned_stages = <<>>

(* --------------------- claims on the generated files ------------------- *)
\* the rank ordered_stages gives a stage, as a set (one rank if the stage has
\* exactly one entry)
RanksOf(stage) ==
  {ordered_stages[i][2] :
     i \in {j \in 1..Len(ordered_stages) : ordered_stages[j][1] = stage}}

CatalogNames == {STAGES[i].name : i \in 1..Len(STAGES)}

BannedSet == {banned_stages[i] : i \in 1..Len(banned_stages)}

\* C11: with two banned stages, generate_ordered_stages gives every catalog
\* stage exactly one entry, rank 0 to exactly the two banned stages, and to
\* the seven others the ranks 1..7, each once.
C11_RanksArePermutation ==
  (Len(banned_stages) = 2 /\ ordered_stages # <<>>) =>
    /\ Len(ordered_stages) = Len(STAGES)
    /\ \A stage \in CatalogNames :
         Cardinality({j \in 1..Len(ordered_stages) :
                        ordered_stages[j][1] = stage}) = 1
    /\ \A stage \in CatalogNames :
         (RanksOf(stage) = {0}) <=> (stage \in BannedSet)
    /\ \A r \in 1..(Len(STAGES) - 2) :
         Cardinality({stage \in CatalogNames : RanksOf(stage) = {r}}) = 1
    /\ \A stage \in CatalogNames :
         \A r \in RanksOf(stage) : r \in 0..(Len(STAGES) - 2)

\* C11 witness: two stages banned, Security Hall shuffled to the front and
\* exchanged, the ordering generated
C11_Witness ==
  /\ Len(banned_stages) = 2
  /\ ordered_stages # <<>>
  /\ shuffled[1] = "Security Hall"
  /\ swap_idx = 3
  /\ shuffled[2] # remaining_stages(banned_stages)[1]

\* C12: for every ban set, shuffle outcome and swap index, Security Hall never
\* has rank 1 and is never the first stage of the active sequence; when the
\* shuffle put it in front it is exchanged with the stage at one position of
\* 1..len-1 and every other position is as shuffled, and when the shuffle
\* did not put it in front the active sequence is the shuffled list.
C12_SecurityHallNeverFirst ==
  ordered_stages # <<>> =>
    LET order == stage_order(ordered_stages)
    IN  /\ order[1] # "Security Hall"
        /\ 1 \notin RanksOf("Security Hall")
        /\ Len(order) = Len(shuffled)
        /\ IF shuffled[1] = "Security Hall"
           THEN /\ swap_idx \in 1..(Len(shuffled) - 1)
                /\ order[1] = shuffled[swap_idx + 1]
                /\ order[swap_idx + 1] = "Security Hall"
                /\ \A k \in 1..Len(shuffled) :
                     (k # 1 /\ k # swap_idx + 1) => order[k] = shuffled[k]
           ELSE order = shuffled

\* C12 witness: Security Hall shuffled to the front and exchanged with the
\* last position, the ordering generated
C12_Witness ==
  /\ ordered_stages # <<>>
  /\ shuffled[1] = "Security Hall"
  /\ swap_idx = Len(shuffled) - 1
  /\ stage_order(ordered_stages)[Len(shuffled)] = "Security Hall"

\* the five-entry group an entry belongs to, and its number inside the group
GroupOf(k) == ((k - 1) \div 5) + 1
NumberIn(k) == ((k - 1) % 5) + 1

\* C13: with N active stages the split output has exactly 5 * N entries, both
\* as Segment names and as split_list labels; the k-th belongs to the stage
\* of rank ((k-1) div 5) + 1, carries the number ((k-1) mod 5) + 1, and its
\* running index reads k out of 5 * N.
C13_SplitEntries ==
  segments # <<>> =>
    LET order == stage_order(ordered_stages)
        N == Len(order)
    IN  /\ N = Len(STAGES) - Len(banned_stages)
        /\ Len(segments) = 5 * N
        /\ Len(split_list) = 5 * N
        /\ \A g \in 1..N : RanksOf(order[g]) = {g}
        /\ \A k \in 1..(5 * N) :
             /\ split_list[k] = <<order[GroupOf(k)], " ">> \o Str(NumberIn(k))
             /\ segments[k] =
                  <<order[GroupOf(k)], " ">> \o Str(NumberIn(k))
                    \o <<" ", "(">> \o Str(k) \o <<"/">> \o Str(5 * N)
                    \o <<")">>

\* C13 witness: seven active stages, 35 entries, the last one reading
\* "<stage> 5 (35/35)"
C13_Witness ==
  /\ Len(banned_stages) = 2
  /\ Len(segments) = 35
  /\ segments[35] = <<stage_order(ordered_stages)[7], " ", "5", " ", "(",
                      "3", "5", "/", "3", "5", ")">>

KeyOf(line) == SubSeq(line, 1, IndexOf(line, "=") - 1)

\* the aliases in catalog declaration order, as they are written
CatalogKeys == [i \in 1..Len(STAGE_NAMES) |-> Spell[stage_abbrs(STAGE_NAMES[i])]]

\* the lines first..first+8 of config.ini carry the catalog's aliases as
\* keys, in declaration order
KeysInCatalogOrder(first) ==
  \A i \in 1..Len(STAGE_NAMES) : KeyOf(config_text[first + i - 1]) = CatalogKeys[i]

\* the sections of config.ini are set, order, number, in that order, each
\* closed by an empty line
SectionsInOrder ==
  /\ Len(config_text) = 26
  /\ config_text[1] = <<"[", "s", "e", "t", "]">>
  /\ KeyOf(config_text[2]) = <<"s", "e", "e", "d">>
  /\ config_text[3] = <<"u", "p", "s", "=", "T", "r", "u", "e">>
  /\ config_text[4] = <<>>
  /\ config_text[5] = <<"[", "o", "r", "d", "e", "r", "]">>
  /\ config_text[15] = <<>>
  /\ config_text[16] = <<"[", "n", "u", "m", "b", "e", "r", "]">>
  /\ config_text[26] = <<>>

\* C15: in the emitted config the sections are set, order, number, and in the
\* order section and in the number section the keys are the stage aliases in
\* catalog declaration order (wc, ph, dc, am, mh, dl, eq, sh, ms), for every
\* ban set and shuffle outcome.
C15_KeysInCatalogOrder ==
  config_text # <<>> =>
    /\ SectionsInOrder
    /\ KeysInCatalogOrder(6)
    /\ KeysInCatalogOrder(17)

\* the values the text read back gives a key in the sections of a name
ParsedValues(section, key) ==
  UNION { {parsed[t][2][i][2] :
             i \in {j \in 1..Len(parsed[t][2]) : parsed[t][2][j][1] = key}} :
          t \in {u \in 1..Len(parsed) : parsed[u][1] = section} }
\* how many items the text read back has in the sections of a name
ParsedSize(section) ==
  LET at == {t \in 1..Len(parsed) : parsed[t][1] = section}
  IN  IF Cardinality(at) = 1 THEN Len(parsed[CHOOSE t \in at : TRUE][2]) ELSE 0 - 1

\* C16: reading the emitted config text back gives an order section with
\* exactly one item per catalog alias, its value the decimal rank of that
\* stage in ordered_stages (0 exactly for the banned stages), and a number
\* section with exactly one item per alias, its value 5.
C16_ConfigRoundTrip ==
  parsed # None =>
    /\ [t \in 1..Len(parsed) |-> parsed[t][1]] = <<"set", "order", "number">>
    /\ ParsedSize("order") = Len(STAGES)
    /\ ParsedSize("number") = Len(STAGES)
    /\ \A stage \in CatalogNames :
         /\ ParsedValues("order", stage_abbrs(stage)) =
              {Str(r) : r \in RanksOf(stage)}
         /\ Cardinality(RanksOf(stage)) = 1
         /\ (stage \in BannedSet) <=>
              ParsedValues("order", stage_abbrs(stage)) = {<<"0">>}
         /\ ParsedValues("number", stage_abbrs(stage)) = {<<"5">>}

\* C16 witness: a config with two banned stages read back: rank 7 for the
\* last active stage, 0 for the first banned one
C16_Witness ==
  /\ parsed # None
  /\ Len(banned_stages) = 2
  /\ ParsedValues("order", stage_abbrs(stage_order(ordered_stages)[7])) = {<<"7">>}
  /\ ParsedValues("order", stage_abbrs(banned_stages[1])) = {<<"0">>}
  /\ ParsedValues("set", "seed") = {Str(MAX_SEED)}

(* ----------------------- claims on the draft, again -------------------- *)
\* C17: in a draft the ordering is generated once: a step that sets
\* ordered_stages to a new ordering starts from the empty ordering that
\* reset left, and it leaves split_list as the labels of that ordering and
\* rank 0 with exactly the banned stages.
C17_OrderingGeneratedOnce ==
  [][(ordered_stages' # ordered_stages /\ ordered_stages' # <<>>) =>
       /\ ordered_stages = <<>>
       /\ split_list' \in {<<>>, create_split_list(stage_order(ordered_stages'))}
       /\ \A i \in 1..Len(ordered_stages') :
            (ordered_stages'[i][2] = 0) <=>
              InList(ordered_stages'[i][1], banned_stages')]_vars

\* the status line of a runner: the second for runner1, the third for runner2
StatusLineOf(runner) == IF runner = runner1 THEN 2 ELSE 3

\* C18: between a start and the next reset the status line of the first
\* banner holds the first banned stage and that of the second banner the
\* second banned stage, each empty until that ban; after a reset, until the
\* next start, the three lines are empty.
C18_StatusLinesTrackDraft ==
  IF runner1 = None
  THEN output_lines = << <<>>, "", "" >>
  ELSE /\ output_lines[StatusLineOf(first_banner)] =
            IF Len(banned_stages) >= 1 THEN banned_stages[1] ELSE ""
       /\ output_lines[StatusLineOf(second_banner)] =
            IF Len(banned_stages) >= 2 THEN banned_stages[2] ELSE ""

(* ------------------------ claims on the resolver ----------------------- *)
\* the aliases of a canonical name, lower-cased
AliasesOf(stage) ==
  LET i == CHOOSE j \in 1..Len(STAGES) : STAGES[j].name = stage
  IN  {Lower(STAGES[i].abbrs[k]) : k \in 1..Len(STAGES[i].abbrs)}

\* the canonical names equal to a text, and those with an alias equal to
\* it, case-insensitively
NameHits(text) == {stage \in CatalogNames : Lower(stage) = Lower(text)}
AliasHits(text) == {stage \in CatalogNames : Lower(text) \in AliasesOf(stage)}

\* names are unique, no alias belongs to two stages, no alias is a name
CatalogUnambiguous ==
  /\ Cardinality(CatalogNames) = Len(STAGES)
  /\ \A a, b \in CatalogNames :
       /\ a # b => Lower(a) # Lower(b)
       /\ a # b => AliasesOf(a) \cap AliasesOf(b) = {}
       /\ Lower(a) \notin AliasesOf(b)

AlreadyIn(stage_input, banned) ==
  \E i \in 1..Len(banned) : banned[i] = ResolvedInput[stage_input]

C21_PhaseFlagsExclusive == ~(waiting_for_ban1 /\ waiting_for_ban2)

\* C22: whenever waiting_for_ban1 or waiting_for_ban2 is true, draft_active
\* is true: a coroutine of an earlier draft never deactivates the draft that
\* a later start set up.
C22_WaitingImpliesActive ==
  (waiting_for_ban1 \/ waiting_for_ban2) => draft_active

(* ----------------------- claims on progress ---------------------------- *)
\* C23: after a start, with no reset and no further start, a fair event
\* loop and console thread and stages that can be accepted typed again and
\* again, the draft comes to be Concluded with its ordering generated; and
\* it comes to await the second ban only from awaiting the first.
C23_DraftConcludes ==
  /\ (pending_starts > 0) ~> (Concluded /\ ordered_stages # <<>>)
  /\ [][(~waiting_for_ban2 /\ waiting_for_ban2') => waiting_for_ban1]_vars

\* C24: whenever the session is active and awaits a ban, with no start still
\* in its countdown, a console input thread is alive in its loop to take the
\* line: at its prompt, about to prompt, or waiting for the ban it handed
\* over.  (start_console_input starts a thread only when none is alive, and
\* the event loop alone calls it, so there is never more than the one thread
\* console_pc follows.)
C24_ThreadAwaitsBan ==
  (draft_active /\ (waiting_for_ban1 \/ waiting_for_ban2) /\ pending_starts = 0)
    => console_pc \in {"loop", "input", "wait"}

====
